---- MODULE Spec2Model ----
(***************************************************************************)
(* A model of scripts/abs-tag-sync/sync_tags.py: one run of the tag sync   *)
(* (user map, inventory, request groups, reconciliation loop) against a    *)
(* media server whose items carry item-level and media-level tags, twice   *)
(* in a row.  Text (emails, names, ASINs, tags, psql output) is a sequence *)
(* of one-character strings, so that lower(), strip(), split() and         *)
(* startswith() are computed, not assumed.                                 *)
(***************************************************************************)
EXTENDS Integers, Sequences, FiniteSets, TLC

\* ------------------------------------------------------------------ bounds
MaxUsers == 2
MaxRows == 2
MaxEmailLen == 1
MaxItems == 2

\* ------------------------------------------------------------------ text
Range(s) == {s[k] : k \in 1..Len(s)}

\* An optional JSON field: <<>> is an absent (or null) field, <<v>> a present one.
None == <<>>
Some(v) == <<v>>

\* item.get("tags") or []  /  media.get("tags") or []
OrEmptyList(opt) == IF opt = None THEN {} ELSE opt[1]

LowerChar(c) == CASE c = "A" -> "a" [] c = "B" -> "b" [] OTHER -> c

\* str.lower()
lower(s) == [k \in 1..Len(s) |-> LowerChar(s[k])]

Whitespace == {" ", "\n", "\t", "\r"}

RECURSIVE lstrip(_)
lstrip(s) == IF s # <<>> /\ Head(s) \in Whitespace THEN lstrip(Tail(s)) ELSE s

RECURSIVE rstrip(_)
rstrip(s) ==
    IF s # <<>> /\ s[Len(s)] \in Whitespace
    THEN rstrip(SubSeq(s, 1, Len(s) - 1))
    ELSE s

\* str.strip()
strip(s) == rstrip(lstrip(s))

RECURSIVE SplitAcc(_, _, _, _, _)
SplitAcc(s, sep, k, cur, acc) ==
    IF k > Len(s) THEN Append(acc, cur)
    ELSE IF s[k] = sep THEN SplitAcc(s, sep, k + 1, <<>>, Append(acc, cur))
    ELSE SplitAcc(s, sep, k + 1, Append(cur, s[k]), acc)

\* str.split(sep) for a one-character separator: 1 + count(sep) pieces
split(s, sep) == SplitAcc(s, sep, 1, <<>>, <<>>)

\* str.startswith(p)
startswith(t, p) == Len(t) >= Len(p) /\ SubSeq(t, 1, Len(p)) = p

\* The literal "Requester: " of the f-string and of the filter
RequesterPrefix == <<"R", "e", "q", "u", "e", "s", "t", "e", "r", ":", " ">>

\* A dict: a function on its set of keys.
EmptyDict == [k \in {} |-> <<>>]
DictSet(d, key, val) == [k \in DOMAIN d \cup {key} |-> IF k = key THEN val ELSE d[k]]
DictGet(d, key, default) == IF key \in DOMAIN d THEN d[key] ELSE default

\* ------------------------------------------------------- get_abs_user_map
\* A response of the media server: kind "ok" carries a parsed body; the other
\* kinds raise inside the try block (requests.get, raise_for_status, .json()).
FailKinds == {"transport", "http_error", "bad_body"}

\* (a variant that tests "email is not None": an empty email passes)
EmailTruthyNoEmptyCheck(email) == email # None

\* if email:  (None and "" are both falsy)
EmailTruthy(email) == email # None /\ email[1] # <<>>

\* user_map[email.lower()]
UserKey(email) == lower(email)

RECURSIVE UserMapFold(_, _, _)
UserMapFold(users, k, user_map) ==
    IF k > Len(users) THEN user_map
    ELSE LET email == users[k].email IN
         IF EmailTruthy(email)
         THEN UserMapFold(users, k + 1,
                          DictSet(user_map, UserKey(email[1]), users[k].username))
         ELSE UserMapFold(users, k + 1, user_map)

get_abs_user_map(resp) ==
    IF resp.kind = "ok" THEN UserMapFold(resp.users, 1, EmptyDict) ELSE EmptyDict

\* ------------------------------------------------------ get_abs_inventory
\* if asin:
AsinTruthy(asin) == asin # None /\ asin[1] # <<>>

\* "existing_tags": list(set((item.get("tags") or []) + (media.get("tags") or [])))
ExistingTags(item) == OrEmptyList(item.tags) \cup OrEmptyList(item.media_tags)

\* metadata.get("title", "Unknown")
Unknown == <<"U", "n", "k", "n", "o", "w", "n">>
TitleOf(metadata) == IF metadata.title = None THEN Unknown ELSE metadata.title[1]

\* The body of the loop over one library's results; items is the server's
\* item table (id -> item), listed in id order.
RECURSIVE ItemsFold(_, _, _, _)
ItemsFold(items, lib, id, asin_map) ==
    IF id > Len(items) THEN asin_map
    ELSE IF items[id].lib = lib /\ AsinTruthy(items[id].metadata.asin)
    THEN ItemsFold(items, lib, id + 1,
                   DictSet(asin_map, items[id].metadata.asin[1],
                           [id |-> id,
                            metadata |-> items[id].metadata,
                            existing_tags |-> ExistingTags(items[id]),
                            title |-> TitleOf(items[id].metadata)]))
    ELSE ItemsFold(items, lib, id + 1, asin_map)

\* What the item listing of one library does to the scan.  There is no
\* raise_for_status() on items_res: a non-success status whose body is a JSON
\* object without "results" contributes no item and raises nothing; a
\* transport error or a body that is not JSON raises.
ItemKinds == {"ok", "transport", "http_error_json", "bad_body"}
ItemsRaises(kind) == kind \in {"transport", "bad_body"}

\* The loop over the libraries: [raised, asin_map]
RECURSIVE LibsFold(_, _, _, _, _)
LibsFold(libs, kinds, items, k, asin_map) ==
    IF k > Len(libs) THEN [raised |-> FALSE, asin_map |-> asin_map]
    ELSE IF libs[k].mediaType # "book" THEN LibsFold(libs, kinds, items, k + 1, asin_map)
    ELSE IF ItemsRaises(kinds[k]) THEN [raised |-> TRUE, asin_map |-> asin_map]
    ELSE IF kinds[k] = "http_error_json" THEN LibsFold(libs, kinds, items, k + 1, asin_map)
    ELSE LibsFold(libs, kinds, items, k + 1, ItemsFold(items, libs[k].id, 1, asin_map))

get_abs_inventory(resp, items) ==
    IF resp.kind # "ok" THEN EmptyDict
    ELSE LET r == LibsFold(resp.libraries, resp.itemKinds, items, 1, EmptyDict) IN
         IF r.raised THEN EmptyDict ELSE r.asin_map

\* ----------------------------------------------- get_rmab_requests_grouped
\* rmab_groups is a dict in insertion order: a sequence of [asin, requesters]
\* with distinct asins.
HasKey(groups, asin) == \E k \in 1..Len(groups) : groups[k].asin = asin

\* if asin not in asin_to_users: asin_to_users[asin] = []
\* asin_to_users[asin].append({"email": email, "backup": backup})
AppendRequester(groups, asin, entry) ==
    IF HasKey(groups, asin)
    THEN [k \in 1..Len(groups) |->
            IF groups[k].asin = asin
            THEN [asin |-> asin, requesters |-> Append(groups[k].requesters, entry)]
            ELSE groups[k]]
    ELSE Append(groups, [asin |-> asin, requesters |-> <<entry>>])

\* The loop over the lines: [raised, asin_to_users].  asin, email, backup =
\* line.split('|') raises ValueError unless the line has exactly three fields.
RECURSIVE LinesFold(_, _, _)
LinesFold(lines, k, asin_to_users) ==
    IF k > Len(lines) THEN [raised |-> FALSE, asin_to_users |-> asin_to_users]
    ELSE IF "|" \in Range(lines[k])
    THEN LET fields == split(lines[k], "|") IN
         IF Len(fields) # 3
         THEN [raised |-> TRUE, asin_to_users |-> asin_to_users]
         ELSE LinesFold(lines, k + 1,
                        AppendRequester(asin_to_users, fields[1],
                                        [email |-> fields[2], backup |-> fields[3]]))
    ELSE LinesFold(lines, k + 1, asin_to_users)

\* (a variant that returns the rows grouped before the exception)
GroupedKeepPartial(r) == r.asin_to_users

\* return asin_to_users / except Exception: return {}
GroupedOrEmpty(r) == IF r.raised THEN <<>> ELSE r.asin_to_users

\* resp.kind "ok": the client ran and printed stdout; any other kind:
\* subprocess.run raised (check=True, or the client could not be started).
get_rmab_requests_grouped(resp) ==
    IF resp.kind # "ok" THEN <<>>
    ELSE LET lines == split(strip(resp.stdout), "\n") IN
         IF lines = <<>> \/ lines = << <<>> >> THEN <<>>
         ELSE GroupedOrEmpty(LinesFold(lines, 1, <<>>))

\* ------------------------------------------------- the reconciliation loop
\* (a variant that looks the email up as written)
EmailMatchNoLower(email) == email

\* email_match = (r['email'] or "").lower()
EmailMatch(email) == lower(email)

\* username = abs_users.get(email_match, r['backup'])
\* target_requester_tags.append(f"Requester: {username}")
TargetRequesterTags(requesters, users) ==
    [k \in 1..Len(requesters) |->
        RequesterPrefix \o DictGet(users, EmailMatch(requesters[k].email),
                                   requesters[k].backup)]

\* (a variant that filters nothing)
OtherTagsKeepAll(existing_tags) == existing_tags

\* (a variant that filters on "Requester", without the colon and the space)
OtherTagsDropWord(existing_tags) ==
    {t \in existing_tags : ~startswith(t, SubSeq(RequesterPrefix, 1, 9))}

\* other_tags = [t for t in book['existing_tags'] if not t.startswith("Requester: ")]
OtherTags(existing_tags) ==
    {t \in existing_tags : ~startswith(t, RequesterPrefix)}

\* final_tags = list(set(other_tags + target_requester_tags))
FinalTags(existing_tags, target) == OtherTags(existing_tags) \cup Range(target)

\* (a variant that writes whether or not the tags changed)
TagsChangedAlways(final, existing_tags) == TRUE

\* if set(final_tags) != set(book['existing_tags']):
TagsChanged(final, existing_tags) == final # existing_tags

\* ------------------------------------------------------------ update_item
\* What the PATCH comes to: status 200, another status, or an exception.
UpdateOutcomes == {"200", "non200", "transport"}

\* return resp.status_code == 200 / except Exception: return False
update_item(outcome) == outcome = "200"

\* PATCH {ABS_URL}/api/items/{item_id}/media with {"metadata", "tags"}: on
\* status 200 the server has replaced the item's media metadata and media
\* tags; the item-level tags are not part of the media object.
ServerPatchMedia(items, item_id, metadata, merged_tags, outcome) ==
    IF outcome = "200"
    THEN [items EXCEPT ![item_id].metadata = metadata,
                       ![item_id].media_tags = Some(merged_tags)]
    ELSE items

\* (a variant that leaves the loop when update_item returns False)
NextGroupStopOnFailure(k, ok, n) == IF ok THEN k + 1 ELSE n + 1

\* for asin, requesters in rmab_groups.items(): the index of the next group
\* once the body has run, whatever update_item returned
NextGroup(k, ok, n) == k + 1

\* ------------------------------------------------------------------ state
VARIABLES
    config,                 \* ABS_URL and ABS_TOKEN are both set
    usersResp,              \* what GET /api/users answers
    invResp,                \* what GET /api/libraries and the item listings answer
    dbResp,                 \* what the psql client answers
    items,                  \* the media server's items: id -> lib, metadata, tags
    pc,                     \* where __main__ is
    run,                    \* 1: the first run, 2: the run after it
    abs_users,
    abs_items,
    rmab_groups,
    idx,                    \* the position of the for loop in rmab_groups
    target_requester_tags,
    final_tags,
    calls,                  \* the update_item calls made so far
    exitCode                \* -1 while running

env == <<config, usersResp, invResp, dbResp>>
locals == <<abs_users, abs_items, rmab_groups, idx, target_requester_tags, final_tags>>
vars == <<config, usersResp, invResp, dbResp, items, pc, run, abs_users, abs_items,
          rmab_groups, idx, target_requester_tags, final_tags, calls, exitCode>>

\* ----------------------------------------------------------------- inputs
SeqsUpTo(S, n) == UNION {[1..k -> S] : k \in 0..n}

X == <<"X">>
Y == <<"Y">>
Genre == <<"G">>
\* "Requester:p", without the space: not a requester tag
NearMiss == <<"R", "e", "q", "u", "e", "s", "t", "e", "r", ":", "p">>
RequesterTag(name) == RequesterPrefix \o name

\* psql -t -A -F "|": one row per line, the fields joined by the delimiter
Row(asin, email, backup) == asin \o <<"|">> \o email \o <<"|">> \o backup

RECURSIVE Stdout(_)
Stdout(lines) == IF lines = <<>> THEN <<>> ELSE Head(lines) \o <<"\n">> \o Stdout(Tail(lines))

OkUsers(users) == [kind |-> "ok", users |-> users]
FailedUsers(kind) == [kind |-> kind, users |-> <<>>]
OkDb(lines) == [kind |-> "ok", stdout |-> Stdout(lines)]
FailedDb == [kind |-> "failed", stdout |-> <<>>]
OkInventory(libs, kinds) == [kind |-> "ok", libraries |-> libs, itemKinds |-> kinds]
FailedInventory(kind) == [kind |-> kind, libraries |-> <<>>, itemKinds |-> <<>>]

Item(lib, asin, title, tags, media_tags) ==
    [lib |-> lib, metadata |-> [asin |-> asin, title |-> title],
     tags |-> tags, media_tags |-> media_tags]

OneBookLibrary == OkInventory(<<[id |-> 1, mediaType |-> "book"]>>, <<"ok">>)

\* The tag states of an item: item-level and media-level tags
TagStates ==
    { [tags |-> None,                                 media_tags |-> Some({Genre})],
      [tags |-> None,
       media_tags |-> Some({Genre, RequesterTag(<<"p">>)})],
      [tags |-> Some({RequesterTag(<<"z">>)}),        media_tags |-> Some({Genre})],
      [tags |-> Some({Genre}),
       media_tags |-> Some({NearMiss, RequesterTag(<<"z">>)})] }

ItemStates ==
    {Item(1, Some(a), Some(<<"T">>), t.tags, t.media_tags) : a \in {X, Y}, t \in TagStates}
    \cup {Item(1, None, None, None, None)}

DefaultUsers == OkUsers(<<[email |-> Some(<<"a">>), username |-> <<"p">>]>>)
DefaultItems ==
    << Item(1, Some(X), Some(<<"T">>), None, Some({Genre})),
       Item(1, Some(Y), None, None, Some({Genre, RequesterTag(<<"z">>)})) >>
DefaultDb == OkDb(<<Row(X, <<"A">>, <<"n">>), Row(Y, <<>>, <<"m">>)>>)

ProgramStart ==
    /\ pc = "start"
    /\ run = 1
    /\ abs_users = EmptyDict
    /\ abs_items = EmptyDict
    /\ rmab_groups = <<>>
    /\ idx = 0
    /\ target_requester_tags = <<>>
    /\ final_tags = {}
    /\ calls = <<>>
    /\ exitCode = -1

\* Missing configuration, with the default inputs
InitNoConfig ==
    /\ config = FALSE
    /\ usersResp = DefaultUsers
    /\ invResp = OneBookLibrary
    /\ dbResp = DefaultDb
    /\ items = DefaultItems
    /\ ProgramStart

\* The reconciliation: every tag state of two items, the request rows of one
\* or two requesters per title
ReconcileRows == {Row(X, <<"A">>, <<"n">>), Row(Y, <<>>, <<"m">>), Row(X, <<"b">>, <<"p">>)}

Init ==
    \/ InitNoConfig
    \/ /\ config = TRUE
       /\ usersResp \in {DefaultUsers, FailedUsers("transport")}
       /\ invResp = OneBookLibrary
       /\ dbResp \in {OkDb(ls) : ls \in SeqsUpTo(ReconcileRows, MaxRows)}
       /\ items \in [1..MaxItems -> ItemStates]
       /\ ProgramStart

\* ---------------------------------------------------------------- actions
\* if not ABS_URL or not ABS_TOKEN: sys.exit(1)
CheckConfig ==
    /\ pc = "start"
    /\ IF config
       THEN pc' = "users" /\ exitCode' = exitCode
       ELSE pc' = "exit" /\ exitCode' = 1
    /\ UNCHANGED <<env, items, run, locals, calls>>

\* abs_users = get_abs_user_map()
GetAbsUserMap ==
    /\ pc = "users"
    /\ abs_users' = get_abs_user_map(usersResp)
    /\ pc' = "inventory"
    /\ UNCHANGED <<env, items, run, abs_items, rmab_groups, idx,
                   target_requester_tags, final_tags, calls, exitCode>>

\* abs_items = get_abs_inventory()
GetAbsInventory ==
    /\ pc = "inventory"
    /\ abs_items' = get_abs_inventory(invResp, items)
    /\ pc' = "requests"
    /\ UNCHANGED <<env, items, run, abs_users, rmab_groups, idx,
                   target_requester_tags, final_tags, calls, exitCode>>

\* rmab_groups = get_rmab_requests_grouped(); if not rmab_groups: sys.exit(0)
GetRmabRequestsGrouped ==
    /\ pc = "requests"
    /\ rmab_groups' = get_rmab_requests_grouped(dbResp)
    /\ IF rmab_groups' = <<>>
       THEN pc' = "exit" /\ exitCode' = 0 /\ idx' = idx
       ELSE pc' = "loop" /\ exitCode' = exitCode /\ idx' = 1
    /\ UNCHANGED <<env, items, run, abs_users, abs_items,
                   target_requester_tags, final_tags, calls>>

\* One pass of the body of: for asin, requesters in rmab_groups.items()
ReconcileGroup ==
    /\ pc = "loop"
    /\ idx <= Len(rmab_groups)
    /\ LET asin == rmab_groups[idx].asin
           requesters == rmab_groups[idx].requesters
       IN IF asin \in DOMAIN abs_items
          THEN LET book == abs_items[asin]
                   target == TargetRequesterTags(requesters, abs_users)
                   final == FinalTags(book.existing_tags, target)
               IN /\ target_requester_tags' = target
                  /\ final_tags' = final
                  /\ IF TagsChanged(final, book.existing_tags)
                     THEN \E outcome \in UpdateOutcomes :
                            /\ calls' = Append(calls,
                                   [run |-> run, asin |-> asin, item_id |-> book.id,
                                    metadata |-> book.metadata, merged_tags |-> final,
                                    ok |-> update_item(outcome)])
                            /\ items' = ServerPatchMedia(items, book.id, book.metadata,
                                                         final, outcome)
                            /\ idx' = NextGroup(idx, update_item(outcome), Len(rmab_groups))
                     ELSE /\ idx' = NextGroup(idx, TRUE, Len(rmab_groups))
                          /\ UNCHANGED <<calls, items>>
          ELSE /\ idx' = NextGroup(idx, TRUE, Len(rmab_groups))
               /\ UNCHANGED <<target_requester_tags, final_tags, calls, items>>
    /\ UNCHANGED <<env, pc, run, abs_users, abs_items, rmab_groups, exitCode>>

\* print("[*] Sync complete."), and the script ends
SyncComplete ==
    /\ pc = "loop"
    /\ idx > Len(rmab_groups)
    /\ pc' = "exit"
    /\ exitCode' = 0
    /\ UNCHANGED <<env, items, run, locals, calls>>

\* The script is started again, with the same users and the same request rows,
\* against the items as the first run left them
SecondRun ==
    /\ pc = "exit"
    /\ run = 1
    /\ run' = 2
    /\ pc' = "start"
    /\ abs_users' = EmptyDict
    /\ abs_items' = EmptyDict
    /\ rmab_groups' = <<>>
    /\ idx' = 0
    /\ target_requester_tags' = <<>>
    /\ final_tags' = {}
    /\ exitCode' = -1
    /\ UNCHANGED <<env, items, calls>>

Next ==
    \/ CheckConfig
    \/ GetAbsUserMap
    \/ GetAbsInventory
    \/ GetRmabRequestsGrouped
    \/ ReconcileGroup
    \/ SyncComplete
    \/ SecondRun

Spec == Init /\ [][Next]_vars

\* ------------------------------------------- identity resolution inputs
\* Every user list of up to MaxUsers users whose email is absent, empty or a
\* mixed-case address, and one request row for every requester email.
EmailChars == {"a", "A"}
Emails == SeqsUpTo(EmailChars, MaxEmailLen)
UserRecords ==
    {[email |-> e, username |-> n] :
        e \in {None} \cup {Some(m) : m \in Emails}, n \in {<<"p">>, <<"q">>}}

InitIdentity ==
    \/ InitNoConfig
    \/ /\ config = TRUE
       /\ usersResp \in {OkUsers(us) : us \in SeqsUpTo(UserRecords, MaxUsers)}
                        \cup {FailedUsers(k) : k \in FailKinds}
       /\ invResp = OneBookLibrary
       /\ dbResp \in {OkDb(<<Row(X, e, <<"n">>)>>) : e \in Emails}
       /\ items = <<Item(1, Some(X), Some(<<"T">>), None, Some({Genre}))>>
       /\ ProgramStart

SpecIdentity == InitIdentity /\ [][Next]_vars

\* -------------------------------------------------- request grouper inputs
\* Every output of up to MaxRows lines, well-formed or not, and a client that fails.
OutputLines ==
    { Row(X, <<"A">>, <<"n">>), Row(Y, <<>>, <<"m">>), Row(X, <<"b">>, <<"p">>),
      X, <<>>, <<" ">>,
      X \o <<"|">> \o <<"a">>,
      Row(Y, <<"a">>, <<"n">>) \o <<"|">> \o <<"n">> }

InitGrouper ==
    \/ InitNoConfig
    \/ /\ config = TRUE
       /\ usersResp = DefaultUsers
       /\ invResp = OneBookLibrary
       /\ dbResp \in {OkDb(ls) : ls \in SeqsUpTo(OutputLines, MaxRows)} \cup {FailedDb}
       /\ items = DefaultItems
       /\ ProgramStart

SpecGrouper == InitGrouper /\ [][Next]_vars

\* ------------------------------------------------ inventory indexer inputs
\* Two libraries of either media type, every answer to each listing, two
\* items in either library.
LibraryLists ==
    {<<[id |-> 1, mediaType |-> m1], [id |-> 2, mediaType |-> m2]>> :
        m1 \in {"book", "podcast"}, m2 \in {"book", "podcast"}}

InitInventory ==
    \/ InitNoConfig
    \/ /\ config = TRUE
       /\ usersResp = DefaultUsers
       /\ invResp \in {OkInventory(libs, kinds) :
                          libs \in LibraryLists, kinds \in [1..2 -> ItemKinds]}
                      \cup {FailedInventory(k) : k \in FailKinds}
       /\ dbResp = DefaultDb
       /\ items \in {<<Item(l1, Some(X), Some(<<"T">>), None, Some({Genre})),
                       Item(l2, Some(a2), None, None, Some({Genre}))>> :
                        l1 \in {1, 2}, l2 \in {1, 2}, a2 \in {X, Y}}
       /\ ProgramStart

SpecInventory == InitInventory /\ [][Next]_vars

\* ------------------------------------------------------- terms of the claims
\* The update_item calls of the current run
CallsOfRun(r) == {k \in 1..Len(calls) : calls[k].run = r}

\* The run got through its three fetches
Fetched == pc = "loop" \/ (pc = "exit" /\ exitCode = 0)
RunComplete == pc = "exit" /\ exitCode = 0

GroupKeys == {rmab_groups[k].asin : k \in 1..Len(rmab_groups)}
GroupIndex(asin) == CHOOSE k \in 1..Len(rmab_groups) : rmab_groups[k].asin = asin
GroupOf(asin) == rmab_groups[GroupIndex(asin)].requesters

\* The name a RequesterEntry resolves to: the username recorded under its
\* lowercased email, else its backup name
ResolvedName(r) ==
    IF lower(r.email) \in DOMAIN abs_users THEN abs_users[lower(r.email)] ELSE r.backup

IsRequesterTag(t) == startswith(t, RequesterPrefix)

\* (existingTags minus the requester tags) union (one tag per RequesterEntry)
ExpectedTags(asin) ==
    {t \in abs_items[asin].existing_tags : ~IsRequesterTag(t)}
    \cup {RequesterPrefix \o ResolvedName(r) : r \in Range(GroupOf(asin))}

Matched == DOMAIN abs_items \cap GroupKeys
NeedsWrite(asin) == ExpectedTags(asin) # abs_items[asin].existing_tags

\* The group the loop has just been through
LastGroup == rmab_groups[idx - 1]
JustReconciled ==
    /\ pc \in {"loop", "exit"}
    /\ idx > 1
    /\ LastGroup.asin \in DOMAIN abs_items

\* ---------------------------------------------------------------------- C1
\* C1 (as claimed): when a complete run whose fetches all succeeded and whose
\* writes were all applied is followed by a second complete run with the same
\* users and request rows, the second run issues no write-back call.
C1_SecondRunIssuesNoWrite ==
    ( /\ run = 2
      /\ RunComplete
      /\ usersResp.kind = "ok" /\ invResp.kind = "ok" /\ dbResp.kind = "ok"
      /\ \A k \in CallsOfRun(1) : calls[k].ok )
    => CallsOfRun(2) = {}

C3_NoOtherTagDropped ==
    Fetched =>
        \A k \in CallsOfRun(run) :
            {t \in abs_items[calls[k].asin].existing_tags : ~IsRequesterTag(t)}
                \subseteq calls[k].merged_tags

\* A write for an item that had a genre tag and the tag "Requester:p"
C3_Witness ==
    /\ Fetched
    /\ \E k \in CallsOfRun(run) :
        /\ {Genre, NearMiss} \subseteq abs_items[calls[k].asin].existing_tags
        /\ {Genre, NearMiss} \subseteq calls[k].merged_tags

\* ---------------------------------------------------------------------- C4
\* C4: every tag beginning with "Requester: " in the tag set passed to a
\* write-back call is "Requester: " + resolvedName of a RequesterEntry of the
\* RequestGroup of that item's ASIN.
C4_RequesterTagsAreCurrent ==
    Fetched =>
        \A k \in CallsOfRun(run) :
            \A t \in calls[k].merged_tags :
                IsRequesterTag(t) =>
                    \E r \in Range(GroupOf(calls[k].asin)) :
                        t = RequesterPrefix \o ResolvedName(r)

\* A write for an item that had the stale tag "Requester: z", which the
\* written set does not hold
C4_Witness ==
    /\ Fetched
    /\ \E k \in CallsOfRun(run) :
        /\ RequesterTag(<<"z">>) \in abs_items[calls[k].asin].existing_tags
        /\ RequesterTag(<<"z">>) \notin calls[k].merged_tags
        /\ \E t \in calls[k].merged_tags : IsRequesterTag(t)

\* ---------------------------------------------------------------------- C5
\* C5: the user map never holds the empty key, and every RequesterEntry whose
\* email is empty resolves to its backupName, whatever the user list (users
\* without an email, users with an empty email).
C5_EmptyEmailFallsBack ==
    /\ <<>> \notin DOMAIN abs_users
    /\ JustReconciled =>
        \A k \in 1..Len(LastGroup.requesters) :
            LastGroup.requesters[k].email = <<>> =>
                target_requester_tags[k] = RequesterPrefix \o LastGroup.requesters[k].backup

\* A requester without an email was resolved to the backup name while the
\* user list held a user with an empty email and a user with none
C5_Witness ==
    /\ JustReconciled
    /\ usersResp.kind = "ok"
    /\ \E u \in Range(usersResp.users) : u.email = Some(<<>>)
    /\ \E u \in Range(usersResp.users) : u.email = None
    /\ LastGroup.requesters[1].email = <<>>
    /\ target_requester_tags[1] = RequesterTag(LastGroup.requesters[1].backup)

\* ---------------------------------------------------------------------- C6
\* The users of the listing whose non-empty email equals e up to letter case
SameAddress(e) ==
    {u \in Range(usersResp.users) :
        u.email # None /\ u.email[1] # <<>> /\ lower(u.email[1]) = lower(e)}

\* C6: a requester whose email equals, up to letter case, the non-empty email
\* of a listed user resolves to the username of a user listed under that
\* lowercased email, not to the backupName.
C6_CaseInsensitiveMatch ==
    (JustReconciled /\ usersResp.kind = "ok") =>
        \A k \in 1..Len(LastGroup.requesters) :
            SameAddress(LastGroup.requesters[k].email) # {} =>
                \E u \in SameAddress(LastGroup.requesters[k].email) :
                    target_requester_tags[k] = RequesterPrefix \o u.username

\* A requester email matched a user email that is written in another case
C6_Witness ==
    /\ JustReconciled
    /\ usersResp.kind = "ok"
    /\ \E u \in SameAddress(LastGroup.requesters[1].email) :
        /\ u.email[1] # LastGroup.requesters[1].email
        /\ LastGroup.requesters[1].email # lower(LastGroup.requesters[1].email)
        /\ target_requester_tags[1] = RequesterTag(u.username)

\* ---------------------------------------------------------------------- C7
\* The call the loop is to make for a group: none, or one with the item's id,
\* its metadata and the expected tag set
ProcessedAsExpected(j) ==
    LET asin == rmab_groups[j].asin
        made == {k \in CallsOfRun(run) : calls[k].asin = asin}
    IN IF asin \in DOMAIN abs_items /\ NeedsWrite(asin)
       THEN /\ Cardinality(made) = 1
            /\ \A k \in made :
                /\ calls[k].item_id = abs_items[asin].id
                /\ calls[k].metadata = abs_items[asin].metadata
                /\ calls[k].merged_tags = ExpectedTags(asin)
       ELSE made = {}

\* C7: when a write-back call has returned false, the run still ends with
\* exit code 0 and every group after the failed one has been processed as it
\* would have been had the write succeeded.
C7_FailuresAreIsolated ==
    (pc = "exit" /\ \E k \in CallsOfRun(run) : ~calls[k].ok) =>
        /\ exitCode = 0
        /\ \A k \in CallsOfRun(run) :
            ~calls[k].ok =>
                \A j \in (GroupIndex(calls[k].asin) + 1)..Len(rmab_groups) :
                    ProcessedAsExpected(j)

\* The run has ended, the write for the first group failed and the write for
\* the second group was made
C7_Witness ==
    /\ RunComplete
    /\ Len(rmab_groups) = 2
    /\ \E k \in CallsOfRun(run) : calls[k].asin = rmab_groups[1].asin /\ ~calls[k].ok
    /\ \E k \in CallsOfRun(run) : calls[k].asin = rmab_groups[2].asin

\* ---------------------------------------------------------------------- C8
\* The rows of the client's output, and those that hold the delimiter
StdoutRows == split(strip(dbResp.stdout), "\n")
DelimitedRows == SelectSeq(StdoutRows, LAMBDA l : "|" \in Range(l))
GrouperFails ==
    \/ dbResp.kind # "ok"
    \/ \E k \in 1..Len(DelimitedRows) : Len(split(DelimitedRows[k], "|")) # 3

RowsOf(asin) == SelectSeq(DelimitedRows, LAMBDA l : split(l, "|")[1] = asin)

\* C8: if the client fails or a row holding the delimiter does not split into
\* three fields, the result is the empty mapping, no write-back call is made
\* and the run exits with code 0; otherwise the rows without a delimiter are
\* skipped and the rows with one are grouped by ASIN in row order.
C8_GrouperFailureYieldsEmpty ==
    Fetched =>
        IF GrouperFails
        THEN rmab_groups = <<>> /\ pc = "exit" /\ exitCode = 0 /\ CallsOfRun(run) = {}
        ELSE /\ GroupKeys = {split(DelimitedRows[k], "|")[1] : k \in 1..Len(DelimitedRows)}
             /\ \A g \in Range(rmab_groups) :
                  g.requesters =
                      [k \in 1..Len(RowsOf(g.asin)) |->
                          [email |-> split(RowsOf(g.asin)[k], "|")[2],
                           backup |-> split(RowsOf(g.asin)[k], "|")[3]]]

\* The run has exited after a well-formed row of a title of the library was
\* followed by a row that holds the delimiter but not three fields
C8_Witness ==
    /\ RunComplete
    /\ dbResp.kind = "ok"
    /\ Len(StdoutRows) = 2
    /\ Len(split(StdoutRows[1], "|")) = 3
    /\ split(StdoutRows[1], "|")[1] \in DOMAIN abs_items
    /\ Len(split(StdoutRows[2], "|")) \in {2, 4}
    /\ rmab_groups = <<>>

\* ---------------------------------------------------------------------- C9
\* A stage of the indexer failed: the library list, or the item listing of a
\* book library (transport error, non-success status, unparsable body)
InventoryFails ==
    \/ invResp.kind # "ok"
    \/ \E k \in 1..Len(invResp.libraries) :
        invResp.libraries[k].mediaType = "book" /\ invResp.itemKinds[k] # "ok"

\* C9 (as claimed): if any stage of the Inventory Indexer fails, the indexer
\* returns the empty mapping and the run issues no write-back call.
C9_InventoryFailureYieldsEmpty ==
    (pc \in {"requests", "loop"} \/ RunComplete) =>
        (InventoryFails => abs_items = EmptyDict /\ CallsOfRun(run) = {})

\* --------------------------------------------------------------------- C10
\* C10: once the loop is over, an indexed item has received exactly one
\* write-back call if its ASIN is a key of the inventory and of the request
\* groups and finalTags differs from its existingTags, and none otherwise.
C10_WriteIffChanged ==
    (RunComplete \/ (pc = "loop" /\ idx > Len(rmab_groups))) =>
        \A id \in 1..Len(items) :
            Cardinality({k \in CallsOfRun(run) : calls[k].item_id = id}) =
                IF \E asin \in Matched : abs_items[asin].id = id /\ NeedsWrite(asin)
                THEN 1 ELSE 0

\* The run has ended with one item written once and another, whose ASIN is in
\* both mappings and whose tags were already final, not written
C10_Witness ==
    /\ RunComplete
    /\ \E a \in Matched, b \in Matched :
        /\ NeedsWrite(a) /\ ~NeedsWrite(b)
        /\ Cardinality({k \in CallsOfRun(run) : calls[k].item_id = abs_items[a].id}) = 1
        /\ {k \in CallsOfRun(run) : calls[k].item_id = abs_items[b].id} = {}

====
